---- MODULE Spec2Model ----
(***************************************************************************)
(* A model of main.py of fake-data-generator: the generator                *)
(* (generate_data_pandas), the exporter (save_all_formats) and the command *)
(* line caller (main), running in one Python process against a file system.*)
(*                                                                         *)
(* The identifier range of the source, 100000..999999, holds 900000        *)
(* values.  The model keeps the lower end and scales the number of values  *)
(* down to IdSpan; the advisory threshold of the source (900000) is the    *)
(* same number as the capacity of the range and is scaled with it, and the *)
(* confirmation threshold (1000000) lies ConfirmGap above it.              *)
(***************************************************************************)
EXTENDS Integers, Sequences, FiniteSets, TLC

VARIABLES
    seen,         \* fake.unique: the values random_int has issued (process-global)
    dirs,         \* file system: the directories that exist
    files,        \* file system: path -> [exists, body]
    pc,           \* position of the running call ("idle": none is running)
    caller,       \* "top" (the function was called directly) or "main"
    op,           \* the function that runs or ran last: "none", "gen", "save", "main"
    calls,        \* top-level calls made so far in this process
    num_records,  \* generate_data_pandas: its argument
    data,         \* generate_data_pandas: the local list of records
    df,           \* the DataFrame returned last (the argument of save_all_formats)
    base_name,    \* save_all_formats: its argument
    result,       \* how the last core function ended: returned or raised
    out,          \* stdout of the running top-level call
    errout,       \* stderr of the running top-level call
    args,         \* main: the parsed arguments [count, output]
    answer,       \* stdin: the line typed at the confirmation prompt
    response,     \* main: the lowered answer
    exit_status,  \* status the process ended with (NoExit while it runs)
    seen0,        \* history: the value of seen when generate_data_pandas was entered
    issued,       \* history: every value the unique proxy returned, in order
    dirs0         \* history: the directories that existed when the process started

vars == <<seen, dirs, files, pc, caller, op, calls, num_records, data, df,
          base_name, result, out, errout, args, answer, response, exit_status,
          seen0, issued, dirs0>>

----------------------------------------------------------------------------
(* Bounds of the model *)

\* number of values in the identifier range (900000 in the source)
IdSpan == 2
\* distance between the advisory and the confirmation threshold (100000 in the source)
ConfirmGap == 1
\* top-level calls made in one process
MaxCalls == 2

----------------------------------------------------------------------------
(* Constants of the program *)

ID_MIN == 100000
ID_MAX == ID_MIN + IdSpan - 1
IdRange == ID_MIN..ID_MAX
Capacity == ID_MAX - ID_MIN + 1

ADVISORY_THRESHOLD == IdSpan
CONFIRM_THRESHOLD == ADVISORY_THRESHOLD + ConfirmGap

\* the record counts a caller passes (0 and -5 are the non-positive samples)
Counts == {-5, 0} \cup (1..(CONFIRM_THRESHOLD + 1))

\* values fake.name() may return; nothing makes them differ between records
Names == {<<"A", "n", "n", "a">>, <<"O", "l", "e", "g">>}

\* base names a caller passes: without and with a directory prefix
Bases == {<<"data">>, <<"out", "sub", "data">>}
Exts == {"csv", "json", "txt"}
Paths == Bases \X Exts

\* answers typed at the confirmation prompt
Answers == {<<"y">>, <<"Y">>, <<"n">>, <<>>, <<"y", "e", "s">>}

NoExit == -1
NoDf == [columns |-> <<>>, rows |-> <<>>]
NoFile == [exists |-> FALSE, body |-> <<>>]
NoArgs == [count |-> 0, output |-> <<>>]
None == [type |-> "none", cause |-> "none"]
Ok == [type |-> "ok", cause |-> "none"]
Raised(t, c) == [type |-> t, cause |-> c]

----------------------------------------------------------------------------
(* generate_data_pandas *)

\* faulty variant: only negative counts are rejected
InvalidNegative(n) == n < 0

\* num_records < 1: the argument is rejected
Invalid(n) == n < 1

\* faulty variant: the advisory is printed at the threshold too
AdvisoryAtThreshold(n) == n >= ADVISORY_THRESHOLD

\* num_records > 900000: the advisory is printed
Advisory(n) == n > ADVISORY_THRESHOLD

\* faulty variant: random_int without the unique proxy
RandomInt(s) == IdRange

(* fake.unique.random_int(min=100000, max=999999): the values a draw may   *)
(* return.  The proxy keeps every value it returned in a process-global    *)
(* set and draws again while the value drawn is in it.                     *)
UniqueRandomInt(s) == IdRange \ s

(* The proxy gives up with UniquenessException after a fixed number of     *)
(* draws that all hit issued values: certain when every value is issued,   *)
(* possible as soon as one is.                                             *)
UniqueMayFail(s) == (s \cap IdRange) # {}

\* faulty variant: the proxy does not record the value
IssueForget(s, id) == s

\* the values the proxy holds after it returned id
Issue(s, id) == s \cup {id}

\* the column names, as characters ("Name" stands for the second column)
ColID == <<"I", "D">>
ColName == <<"N", "a", "m", "e">>

\* one dict of the list (the fields after the name carry no constraint and are left out)
Record(id, nm) == [ID |-> id, Name |-> nm]

\* data.append(...)
AppendRecord(d, r) == Append(d, r)

\* pd.DataFrame(data): one row per dict, in list order; columns in key order
DataFrame(d) == [columns |-> <<ColID, ColName>>, rows |-> d]

\* faulty variant: the exception of the library is not wrapped
LeakException(e) == Raised(e, "none")

\* the exception the handler of the loop raises in place of e
WrapGeneration(e) == Raised("RuntimeError", e)

\* where control goes when a core function ends
ReturnPc(who, after) == IF who = "main" THEN after ELSE "idle"

\* entry of the function up to the loop: validation, advisory, data = []
GenEnter(n, o, who) ==
    /\ num_records' = n
    /\ seen0' = seen
    /\ data' = <<>>
    /\ IF Invalid(n)
         THEN /\ result' = Raised("ValueError", "none")
              /\ pc' = ReturnPc(who, "main_gen_ret")
              /\ out' = o
         ELSE /\ result' = None
              /\ pc' = "gen_loop"
              /\ out' = IF Advisory(n) THEN Append(o, "advisory") ELSE o

\* a direct call generate_data_pandas(n)
GenCall(n) ==
    /\ pc = "idle"
    /\ calls < MaxCalls
    /\ calls' = calls + 1
    /\ op' = "gen"
    /\ caller' = "top"
    /\ errout' = <<>>
    /\ GenEnter(n, <<>>, "top")
    /\ UNCHANGED <<seen, dirs, files, df, base_name, args, answer, response,
                   exit_status, issued, dirs0>>

\* one iteration of the loop: a record is appended
GenIter ==
    /\ pc = "gen_loop"
    /\ Len(data) < num_records
    /\ \E id \in UniqueRandomInt(seen), nm \in Names :
         /\ seen' = Issue(seen, id)
         /\ data' = AppendRecord(data, Record(id, nm))
         /\ issued' = Append(issued, id)
    /\ UNCHANGED <<dirs, files, pc, caller, op, calls, num_records, df, base_name,
                   result, out, errout, args, answer, response, exit_status, seen0,
                   dirs0>>

\* one iteration of the loop: the draw raises, and the handler wraps the exception
GenRaise ==
    /\ pc = "gen_loop"
    /\ Len(data) < num_records
    /\ UniqueMayFail(seen)
    /\ result' = WrapGeneration("UniquenessException")
    /\ data' = <<>>
    /\ pc' = ReturnPc(caller, "main_gen_ret")
    /\ UNCHANGED <<seen, dirs, files, caller, op, calls, num_records, df, base_name,
                   out, errout, args, answer, response, exit_status, seen0, issued,
                   dirs0>>

\* the loop is over: the DataFrame is built and returned
GenReturn ==
    /\ pc = "gen_loop"
    /\ Len(data) = num_records
    /\ df' = DataFrame(data)
    /\ data' = <<>>
    /\ out' = Append(out, "prepared")
    /\ result' = Ok
    /\ pc' = ReturnPc(caller, "main_gen_ret")
    /\ UNCHANGED <<seen, dirs, files, caller, op, calls, num_records, base_name,
                   errout, args, answer, response, exit_status, seen0, issued, dirs0>>

----------------------------------------------------------------------------
(* The three formats *)

DigitChar(d) ==
    CASE d = 0 -> "0" [] d = 1 -> "1" [] d = 2 -> "2" [] d = 3 -> "3" [] d = 4 -> "4"
      [] d = 5 -> "5" [] d = 6 -> "6" [] d = 7 -> "7" [] d = 8 -> "8" [] d = 9 -> "9"

\* str(n) of a natural number: its decimal digits
RECURSIVE Digits(_)
Digits(n) == IF n < 10 THEN <<DigitChar(n)>> ELSE Append(Digits(n \div 10), DigitChar(n % 10))

\* the cells of a row as text, in column order
Cells(r) == <<Digits(r.ID), r.Name>>

Max(a, b) == IF a > b THEN a ELSE b

RECURSIVE MaxLen(_)
MaxLen(ss) == IF ss = <<>> THEN 0 ELSE Max(Len(Head(ss)), MaxLen(Tail(ss)))

\* a cell right-justified to width w
RightJustify(s, w) == [i \in 1..(w - Len(s)) |-> " "] \o s

\* faulty variant: to_csv without the header line
ToCsvNoHeader(frame) == [i \in 1..Len(frame.rows) |-> Cells(frame.rows[i])]

(* df.to_csv(index=False, encoding='utf-8-sig'): the header line, which    *)
(* starts with the byte-order mark, then one line per row                  *)
ToCsv(frame) ==
    <<<<<<"BOM">> \o frame.columns[1], frame.columns[2]>>>>
      \o [i \in 1..Len(frame.rows) |-> Cells(frame.rows[i])]

\* df.to_json(orient='records'): an array with one object per row, ID a number
ToJson(frame) ==
    [i \in 1..Len(frame.rows) |-> [ID |-> frame.rows[i].ID, Name |-> frame.rows[i].Name]]

(* df.to_string(index=False): the header line, then one line per row,     *)
(* every cell right-justified to the width of its column                   *)
ToText(frame) ==
    LET cells == [i \in 1..Len(frame.rows) |-> Cells(frame.rows[i])]
        width(c) == MaxLen(<<frame.columns[c]>> \o [i \in 1..Len(cells) |-> cells[i][c]])
        line(cs) == [c \in 1..2 |-> RightJustify(cs[c], width(c))]
    IN  <<line(frame.columns)>> \o [i \in 1..Len(cells) |-> line(cells[i])]

\* what save_all_formats writes to the file with extension ext
Render(ext, frame) ==
    CASE ext = "csv" -> ToCsv(frame)
      [] ext = "json" -> ToJson(frame)
      [] ext = "txt" -> ToText(frame)

----------------------------------------------------------------------------
(* save_all_formats *)

\* os.path.dirname(base_name): the path without its last component
Dirname(b) == SubSeq(b, 1, Len(b) - 1)

\* a directory and the directories above it
Prefixes(d) == {SubSeq(d, 1, k) : k \in 1..Len(d)}

\* os.makedirs(output_dir, ...): the directory is made with the ones above it
MakeDirs(ds, d) == ds \cup Prefixes(d)

\* faulty variant: makedirs without exist_ok
ExistsErrorStrict(ds, d) == d \in ds

\* exist_ok=True: that the directory exists is no error
ExistsError(ds, d) == FALSE

\* a file of directory d can be opened for writing
DirReady(ds, d) == d = <<>> \/ d \in ds

\* the order of the three writes
FirstWrite == "csv"
NextWrite(ext) == CASE ext = "csv" -> "json" [] ext = "json" -> "txt" [] ext = "txt" -> "end"
WritePc(ext) == CASE ext = "csv" -> "save_csv" [] ext = "json" -> "save_json"
                  [] ext = "txt" -> "save_txt"

\* the exceptions a file operation may raise: one that is an OSError, one that is not
Faults == {"PermissionError", "MemoryError"}
IsOSError(e) == e \in {"PermissionError", "FileNotFoundError", "FileExistsError"}

\* except OSError / except Exception: what the function raises in place of e
SaveHandler(e) == IF IsOSError(e) THEN Raised("OSError", e) ELSE Raised("RuntimeError", e)

\* faulty variant: the handlers remove the files of this base name
RollBack(fs, b) == [p \in Paths |-> IF p[1] = b THEN NoFile ELSE fs[p]]

\* the handlers remove nothing: the files stay as the failure left them
AfterFailure(fs, b) == fs

\* entry of the function: output_dir, makedirs
SaveEnter(b, who) ==
    /\ base_name' = b
    /\ LET d == Dirname(b)
       IN  IF d = <<>>
             THEN /\ pc' = WritePc(FirstWrite)
                  /\ result' = None
                  /\ UNCHANGED dirs
             ELSE IF ExistsError(dirs, d)
               THEN /\ pc' = ReturnPc(who, "main_save_ret")
                    /\ result' = SaveHandler("FileExistsError")
                    /\ UNCHANGED dirs
               ELSE \/ /\ dirs' = MakeDirs(dirs, d)
                       /\ pc' = WritePc(FirstWrite)
                       /\ result' = None
                    \/ \E k \in 0..(Len(d) - 1), e \in Faults :
                         /\ dirs' = dirs \cup Prefixes(SubSeq(d, 1, k))
                         /\ pc' = ReturnPc(who, "main_save_ret")
                         /\ result' = SaveHandler(e)

\* a direct call save_all_formats(df, b) with a DataFrame generate_data_pandas returned
SaveCall(b) ==
    /\ pc = "idle"
    /\ calls < MaxCalls
    /\ df # NoDf
    /\ calls' = calls + 1
    /\ op' = "save"
    /\ caller' = "top"
    /\ out' = <<>>
    /\ errout' = <<>>
    /\ SaveEnter(b, "top")
    /\ UNCHANGED <<seen, files, num_records, data, df, args, answer, response,
                   exit_status, seen0, issued, dirs0>>

(* One of the three writes.  It succeeds, or raises with the file left as  *)
(* it was or cut short; after the last one the closing message is printed. *)
Write(ext) ==
    /\ pc = WritePc(ext)
    /\ LET p == <<base_name, ext>>
           ready == DirReady(dirs, Dirname(base_name))
       IN  \/ /\ ready
              /\ files' = [files EXCEPT ![p] = [exists |-> TRUE, body |-> Render(ext, df)]]
              /\ IF NextWrite(ext) = "end"
                   THEN /\ out' = out \o <<ext, "all_saved">>
                        /\ result' = Ok
                        /\ pc' = ReturnPc(caller, "main_save_ret")
                   ELSE /\ out' = Append(out, ext)
                        /\ result' = None
                        /\ pc' = WritePc(NextWrite(ext))
           \/ \E e \in (IF ready THEN Faults ELSE {"FileNotFoundError"}), cut \in BOOLEAN :
                /\ files' = AfterFailure(
                              IF cut /\ ready
                                THEN [files EXCEPT ![p] = [exists |-> TRUE, body |-> <<>>]]
                                ELSE files,
                              base_name)
                /\ result' = SaveHandler(e)
                /\ pc' = ReturnPc(caller, "main_save_ret")
                /\ UNCHANGED out
    /\ UNCHANGED <<seen, dirs, caller, op, calls, num_records, data, df, base_name,
                   errout, args, answer, response, exit_status, seen0, issued, dirs0>>

SaveCsv == Write("csv")
SaveJson == Write("json")
SaveTxt == Write("txt")

----------------------------------------------------------------------------
(* main *)

LowerChar(c) == CASE c = "Y" -> "y" [] c = "E" -> "e" [] c = "S" -> "s" [] c = "N" -> "n"
                  [] OTHER -> c

\* faulty variant: the answer is compared as typed
LowerNot(s) == s

\* str.lower()
Lower(s) == [i \in 1..Len(s) |-> LowerChar(s[i])]

\* args.count < 1
CountRejected(c) == c < 1

\* args.count > 1000000
NeedsConfirmation(c) == c > CONFIRM_THRESHOLD

\* response != 'y'
Declined(r) == r # <<"y">>

\* the except clause of main that catches an exception of type t
ErrorClass(t) ==
    CASE t = "ValueError" -> "validation"
      [] t = "OSError" -> "filesystem"
      [] OTHER -> "unexpected"

\* faulty variant: one exit status per class
ExitStatusPerClass(c) ==
    CASE c = "validation" -> 1
      [] c = "filesystem" -> 2
      [] c = "unexpected" -> 3

\* the argument of sys.exit in the clause of each class
ExitStatus(c) ==
    CASE c = "validation" -> 1
      [] c = "filesystem" -> 1
      [] c = "unexpected" -> 1

\* the message each clause prints to stderr
Message(c) ==
    CASE c = "validation" -> "validation_error"
      [] c = "filesystem" -> "filesystem_error"
      [] c = "unexpected" -> "unexpected_error"

\* an except clause of main: the message, then sys.exit
MainExit(c) ==
    /\ errout' = Append(errout, Message(c))
    /\ exit_status' = ExitStatus(c)
    /\ pc' = "exited"

\* main() up to the try statement: the arguments are parsed and checked
MainCall(c, b) ==
    /\ pc = "idle"
    /\ calls < MaxCalls
    /\ calls' = calls + 1
    /\ op' = "main"
    /\ caller' = "main"
    /\ args' = [count |-> c, output |-> b]
    /\ result' = None
    /\ answer' = <<>>
    /\ response' = <<>>
    /\ IF CountRejected(c)
         THEN /\ errout' = <<"count_error">>
              /\ out' = <<>>
              /\ exit_status' = 1
              /\ pc' = "exited"
         ELSE /\ errout' = <<>>
              /\ exit_status' = NoExit
              /\ IF NeedsConfirmation(c)
                   THEN out' = <<"confirm_warning">> /\ pc' = "main_confirm"
                   ELSE out' = <<>> /\ pc' = "main_try"
    /\ UNCHANGED <<seen, dirs, files, num_records, data, df, base_name, seen0, issued,
                   dirs0>>

\* the prompt is answered with the line a
MainConfirm(a) ==
    /\ pc = "main_confirm"
    /\ answer' = a
    /\ response' = Lower(a)
    /\ IF Declined(response')
         THEN /\ out' = Append(out, "cancelled")
              /\ exit_status' = 0
              /\ pc' = "exited"
         ELSE /\ pc' = "main_try"
              /\ UNCHANGED <<out, exit_status>>
    /\ UNCHANGED <<seen, dirs, files, caller, op, calls, num_records, data, df,
                   base_name, result, errout, args, seen0, issued, dirs0>>

\* stdin is at its end: input() raises EOFError, which nothing catches
MainConfirmEOF ==
    /\ pc = "main_confirm"
    /\ errout' = Append(errout, "traceback")
    /\ exit_status' = 1
    /\ pc' = "exited"
    /\ UNCHANGED <<seen, dirs, files, caller, op, calls, num_records, data, df,
                   base_name, result, out, args, answer, response, seen0, issued, dirs0>>

\* the try statement begins: the Generator is invoked
MainTry ==
    /\ pc = "main_try"
    /\ GenEnter(args.count, Append(out, "start"), "main")
    /\ UNCHANGED <<seen, dirs, files, caller, op, calls, df, base_name, errout, args,
                   answer, response, exit_status, issued, dirs0>>

\* generate_data_pandas has ended: the Exporter is invoked, or the exception is caught
MainGenRet ==
    /\ pc = "main_gen_ret"
    /\ IF result = Ok
         THEN /\ SaveEnter(args.output, "main")
              /\ UNCHANGED <<errout, exit_status>>
         ELSE /\ MainExit(ErrorClass(result.type))
              /\ UNCHANGED <<dirs, base_name, result>>
    /\ UNCHANGED <<seen, files, caller, op, calls, num_records, data, df, out, args,
                   answer, response, seen0, issued, dirs0>>

\* save_all_formats has ended: main returns, or the exception is caught
MainSaveRet ==
    /\ pc = "main_save_ret"
    /\ IF result = Ok
         THEN /\ out' = Append(out, "done")
              /\ exit_status' = 0
              /\ pc' = "exited"
              /\ UNCHANGED errout
         ELSE /\ MainExit(ErrorClass(result.type))
              /\ UNCHANGED out
    /\ UNCHANGED <<seen, dirs, files, caller, op, calls, num_records, data, df,
                   base_name, result, args, answer, response, seen0, issued, dirs0>>

----------------------------------------------------------------------------
(* The process *)

\* the directories that may exist before the process starts
InitDirs == {{}, {<<"out">>}, {<<"out">>, <<"out", "sub">>}}

Init ==
    /\ seen = {}
    /\ dirs \in InitDirs
    /\ files = [p \in Paths |-> NoFile]
    /\ pc = "idle"
    /\ caller = "top"
    /\ op = "none"
    /\ calls = 0
    /\ num_records = 0
    /\ data = <<>>
    /\ df = NoDf
    /\ base_name = <<>>
    /\ result = None
    /\ out = <<>>
    /\ errout = <<>>
    /\ args = NoArgs
    /\ answer = <<>>
    /\ response = <<>>
    /\ exit_status = NoExit
    /\ seen0 = {}
    /\ issued = <<>>
    /\ dirs0 = dirs

Next ==
    \/ \E n \in Counts : GenCall(n)
    \/ GenIter
    \/ GenRaise
    \/ GenReturn
    \/ \E b \in Bases : SaveCall(b)
    \/ SaveCsv
    \/ SaveJson
    \/ SaveTxt
    \/ \E c \in Counts, b \in Bases : MainCall(c, b)
    \/ \E a \in Answers : MainConfirm(a)
    \/ MainConfirmEOF
    \/ MainTry
    \/ MainGenRet
    \/ MainSaveRet

Spec == Init /\ [][Next]_vars

----------------------------------------------------------------------------
(* Notions the properties use *)

Range(q) == {q[i] : i \in 1..Len(q)}
NoDup(q) == \A i, j \in 1..Len(q) : i # j => q[i] # q[j]
IsPrefix(q, r) == Len(q) <= Len(r) /\ SubSeq(r, 1, Len(q)) = q
Ids(rows) == [i \in 1..Len(rows) |-> rows[i].ID]

\* reading a number back from its digits, and a cell back from its padded form
CharDigit(c) == CHOOSE d \in 0..9 : DigitChar(d) = c
RECURSIVE ParseInt(_)
ParseInt(q) ==
    IF Len(q) = 1 THEN CharDigit(q[1])
    ELSE 10 * ParseInt(SubSeq(q, 1, Len(q) - 1)) + CharDigit(q[Len(q)])
Strip(q) == SelectSeq(q, LAMBDA c : c # " ")

\* the ID column of a text file's data lines (every line but the header)
TextIds(body) == [i \in 1..(Len(body) - 1) |-> ParseInt(Strip(body[i + 1][1]))]

ExhaustionError == Raised("RuntimeError", "UniquenessException")
GenDone == (op = "gen" /\ pc = "idle") \/ pc = "main_gen_ret"
SavePcs == {"save_csv", "save_json", "save_txt"}
SaveDone == (op = "save" /\ pc = "idle") \/ pc = "main_save_ret"
SaveLog == SelectSeq(out, LAMBDA t : t \in {"csv", "json", "txt", "all_saved"})
HasAdvisory == "advisory" \in Range(out)
File(ext) == files[<<base_name, ext>>]

----------------------------------------------------------------------------
(* C1 *)

(* C1 as stated: every call with count >= 1 returns a dataset of exactly   *)
(* count records whose IDs are pairwise distinct and lie in the range.     *)
C1_AlwaysReturns ==
    (GenDone /\ num_records >= 1) =>
        /\ result = Ok
        /\ Len(df.rows) = num_records
        /\ NoDup(Ids(df.rows))
        /\ Range(Ids(df.rows)) \subseteq IdRange

(* C1 as amended: a call with count >= 1 returns or fails with the         *)
(* GenerationError that wraps the allocator's error; whenever it returns,  *)
(* the dataset has exactly count records whose IDs are pairwise distinct   *)
(* and lie in the identifier range.                                        *)
C1_ReturnedDataset ==
    (GenDone /\ num_records >= 1) =>
        /\ result \in {Ok, ExhaustionError}
        /\ result = Ok =>
             /\ Len(df.rows) = num_records
             /\ NoDup(Ids(df.rows))
             /\ Range(Ids(df.rows)) \subseteq IdRange

\* a call for as many records as the range holds has returned
C1_Witness ==
    GenDone /\ result = Ok /\ num_records = Capacity /\ Len(df.rows) = Capacity

(* C2: a call with count = capacity + 1 ends with the RuntimeError that    *)
(* wraps the allocator's exhaustion error; it returns no dataset, and the  *)
(* list it builds never holds a duplicate ID or more IDs than the range.   *)
C2_OverCapacityFails ==
    /\ (GenDone /\ num_records = Capacity + 1) => result = ExhaustionError
    /\ pc = "gen_loop" => (NoDup(Ids(data)) /\ Len(data) <= Capacity)

\* such a call has drawn the whole range and failed
C2_Witness ==
    /\ GenDone
    /\ num_records = Capacity + 1
    /\ result.type = "RuntimeError"
    /\ seen = IdRange

(* C3: a call with count < 1 ends with ValueError (not wrapped) before any *)
(* work: no ID is drawn, no record is built, nothing is printed, and the   *)
(* loop is never entered.                                                  *)
C3_InvalidCountRejected ==
    /\ (op = "gen" /\ num_records < 1) =>
          /\ pc = "idle"
          /\ result = Raised("ValueError", "none")
          /\ seen = seen0
          /\ data = <<>>
          /\ out = <<>>
    /\ pc = "gen_loop" => num_records >= 1

\* generate_data_pandas(-5) was rejected in a process that had issued IDs before
C3_Witness ==
    /\ op = "gen"
    /\ num_records = -5
    /\ result.type = "ValueError"
    /\ seen # {}

----------------------------------------------------------------------------
(* C4 *)

Classes == {"validation", "filesystem", "unexpected"}

\* main has ended on a failure of one of the three classes
MainFailed ==
    /\ op = "main"
    /\ pc = "exited"
    /\ errout = <<"count_error">> \/ result.type \notin {"none", "ok"}

ExitClass == IF errout = <<"count_error">> THEN "validation" ELSE ErrorClass(result.type)

(* C4 as stated: the exit status of a failure of one class is not the exit *)
(* status of any other class.                                              *)
C4_DistinctExitStatus ==
    MainFailed => \A c \in Classes \ {ExitClass} : exit_status # ExitStatus(c)

(* C4 as amended: main ends with exit status 1 on a failure of each of the *)
(* three classes; the classes differ in the message printed to stderr, not *)
(* in the exit status, and status 0 is kept for runs that print no error.  *)
C4_ExitStatusOne ==
    /\ MainFailed =>
          /\ exit_status = 1
          /\ errout # <<>>
          /\ errout # <<"count_error">> => errout = <<Message(ExitClass)>>
    /\ \A c, d \in Classes : c # d => Message(c) # Message(d)
    /\ (op = "main" /\ pc = "exited" /\ exit_status = 0) => errout = <<>>

\* main has ended on a filesystem failure
C4_Witness == MainFailed /\ ExitClass = "filesystem" /\ exit_status = 1

----------------------------------------------------------------------------
(* C5, C6, C7 *)

(* C5: the files are written in the order CSV, JSON, TXT; a file written   *)
(* in this call keeps its new content whatever happens later in the call;  *)
(* the call returns normally exactly when all three are written, and ends  *)
(* with an exception otherwise.                                            *)
C5_NoRollback ==
    (pc \in SavePcs \/ SaveDone) =>
        /\ IsPrefix(SaveLog, <<"csv", "json", "txt", "all_saved">>)
        /\ \A ext \in Exts \cap Range(SaveLog) :
              File(ext).exists /\ File(ext).body = Render(ext, df)
        /\ SaveDone =>
              /\ result = Ok <=> Exts \subseteq Range(SaveLog)
              /\ result # Ok => result.type \in {"OSError", "RuntimeError"}

\* the JSON write failed and the CSV file of this call is on disk
C5_Witness ==
    /\ SaveDone
    /\ result.type = "OSError"
    /\ SaveLog = <<"csv">>
    /\ File("csv").body = Render("csv", df)
    /\ ~File("json").exists

(* C6: after a successful export each file holds one row or object per     *)
(* record (CSV and TXT after one header line), and the three list the IDs  *)
(* of the dataset in the order in which the allocator issued them.         *)
C6_SameIdsSameOrder ==
    (SaveDone /\ result = Ok) =>
        LET n == Len(df.rows)
            ids == Ids(df.rows)
        IN  /\ Len(File("csv").body) = n + 1
            /\ Len(File("json").body) = n
            /\ Len(File("txt").body) = n + 1
            /\ TextIds(File("csv").body) = ids
            /\ Ids(File("json").body) = ids
            /\ TextIds(File("txt").body) = ids
            /\ n <= Len(issued)
            /\ \E k \in 0..(Len(issued) - n) : SubSeq(issued, k + 1, k + n) = ids

\* a dataset of two records or more was exported
C6_Witness == SaveDone /\ result = Ok /\ Len(df.rows) >= 2

\* the directory is there before a file is written; that it exists is no error
C7_DirectoryReady ==
    /\ pc \in SavePcs => DirReady(dirs, Dirname(base_name))
    /\ \A p \in Paths : files[p].exists => DirReady(dirs, Dirname(p[1]))
    /\ \A d \in dirs : Prefixes(d) \subseteq dirs
    /\ result.cause \notin {"FileExistsError", "FileNotFoundError"}

\* a step creates directories only for a base name that has a prefix, and only that path
C7_DirectoryStep ==
    dirs' # dirs =>
        /\ Dirname(base_name') # <<>>
        /\ dirs \subseteq dirs'
        /\ dirs' \subseteq dirs \cup Prefixes(Dirname(base_name'))

(* C7: the directory of base_name and the ones above it exist before any   *)
(* of the three files is written; the export does not fail because the     *)
(* directory exists or is missing; no directory is created for a base name *)
(* without a directory prefix.                                             *)
C7_MakeDirs == []C7_DirectoryReady /\ [][C7_DirectoryStep]_vars

\* an export succeeded into a directory that did not exist when the process started
C7_Witness ==
    /\ SaveDone
    /\ result = Ok
    /\ Dirname(base_name) # <<>>
    /\ Dirname(base_name) \notin dirs0
    /\ File("txt").exists

----------------------------------------------------------------------------
(* C8, C9, C10 *)

\* the advisory is printed exactly above the threshold, and no failure is due to it
C8_AdvisoryInv ==
    (pc = "gen_loop" \/ GenDone) =>
        /\ HasAdvisory <=> num_records > ADVISORY_THRESHOLD
        /\ (HasAdvisory /\ result.type \notin {"none", "ok"}) => result = ExhaustionError

\* the step that prints the advisory enters the loop
C8_AdvisoryStep ==
    (~HasAdvisory /\ HasAdvisory') => (pc' = "gen_loop" /\ result' = None /\ data' = <<>>)

(* C8: for count > 900000 the advisory is printed and generation goes on   *)
(* into the loop, a later failure being the allocator's; for count <=      *)
(* 900000 no advisory is printed.                                          *)
C8_AdvisoryNonFatal == []C8_AdvisoryInv /\ [][C8_AdvisoryStep]_vars

\* after the advisory a record was generated
C8_Witness == HasAdvisory /\ pc = "gen_loop" /\ Len(data) >= 1

\* main has read an answer to the prompt
MainAnswered ==
    /\ op = "main"
    /\ NeedsConfirmation(args.count)
    /\ pc # "main_confirm"
    /\ errout # <<"traceback">>

Cancelled ==
    /\ pc = "exited"
    /\ exit_status = 0
    /\ out = <<"confirm_warning", "cancelled">>
    /\ result = None

(* C9 as stated: any answer other than 'y' ends the process with status 0  *)
(* and without Generator or Exporter.                                      *)
C9_AnyAnswerButY == (MainAnswered /\ answer # <<"y">>) => Cancelled

\* the answer decides: declined unless it is y or Y, and asked before the Generator
C9_ConfirmInv ==
    /\ (MainAnswered /\ answer \notin {<<"y">>, <<"Y">>}) => Cancelled
    /\ (MainAnswered /\ answer \in {<<"y">>, <<"Y">>}) => ~Cancelled
    /\ (op = "main" /\ NeedsConfirmation(args.count)
          /\ pc \in {"main_try", "gen_loop", "main_gen_ret", "main_save_ret"} \cup SavePcs)
         => response = <<"y">>

\* the prompt step touches neither the allocator nor the file system; exit is final
C9_ConfirmStep ==
    /\ pc = "main_confirm" =>
          (seen' = seen /\ issued' = issued /\ files' = files /\ dirs' = dirs /\ df' = df)
    /\ pc = "exited" => pc' = "exited"

(* C9 as amended: for count > 1000000 the answer is read before the        *)
(* Generator is invoked; if the answer, lowered, is not 'y' (any answer    *)
(* but 'y' and 'Y'), neither Generator nor Exporter is invoked, no file is *)
(* written and the process ends with status 0; 'y' and 'Y' both go on.     *)
C9_ConfirmBeforeGenerate == []C9_ConfirmInv /\ [][C9_ConfirmStep]_vars

\* the prompt was answered n and the process ended with status 0
C9_Witness == MainAnswered /\ answer = <<"n">> /\ Cancelled

(* C10: the values issued in one process are pairwise distinct across      *)
(* calls and all stay in the pool, those of failed calls included; a call  *)
(* with count >= 1 above the number of values left at its entry fails with *)
(* the wrapped exhaustion error.                                           *)
C10_PoolNeverReset ==
    /\ NoDup(issued)
    /\ Range(issued) = seen
    /\ seen0 \subseteq seen
    /\ (GenDone /\ num_records >= 1 /\ num_records > Capacity - Cardinality(seen0))
         => result = ExhaustionError

\* a second call within the capacity failed on what the first call had left
C10_Witness ==
    /\ GenDone
    /\ calls = 2
    /\ seen0 # {}
    /\ num_records <= Capacity
    /\ num_records > Capacity - Cardinality(seen0)
    /\ result = ExhaustionError
    /\ seen # seen0

====
